---- MODULE Spec2Model ----
(***************************************************************************)
(* Model of examples/c_project/src/main.c: the entry point of the zbuild   *)
(* example project.  main writes a banner, the version, the invocation     *)
(* parameters (when there are any) and the sum 10 + 20 to standard output  *)
(* and returns 0.                                                          *)
(*                                                                         *)
(* Text is a sequence of symbols.  A symbol is one character, or one       *)
(* literal fragment of a format string (a fragment holds no newline).  The *)
(* newline character is the symbol NL.  Standard output is the sequence of *)
(* the texts written by the printf calls; Stream is what a reader of the   *)
(* file descriptor sees and Lines splits it at the newlines.  Every write   *)
(* succeeds: the program does not look at what printf returns.             *)
(***************************************************************************)
EXTENDS Integers, Sequences, FiniteSets, TLC

\* Largest number of invocation parameters explored (argc <= MaxArgs + 1).
MaxArgs == 2

NL == "\n"

----------------------------------------------------------------------------
\* Inputs of a run.

\* argv[0], the program name.
ProgName == <<".", "/", "m", "a", "i", "n">>

\* The parameter texts explored: plain words, a value with a space, values
\* that look like options, a value that looks like a conversion, the empty
\* string and a value holding a newline.  Any NUL-free text is a legal
\* element of argv.
ParamTexts ==
    { <<"f", "o", "o">>,
      <<"b", "a", "r", " ", "b", "a", "z">>,
      <<"-", "-", "h", "e", "l", "p">>,
      <<"-", "v">>,
      <<"%", "d">>,
      <<>>,
      <<"a", NL, "b">> }

\* The texts the version provider may return (opaque to main).
Versions == { <<"1", ".", "0", ".", "0">>, <<"0", ".", "2">> }

VARIABLES
    argc,            \* main's first parameter
    argv,            \* main's second parameter: [0 .. argc-1 -> text]
    version_string,  \* what get_version() returns in this run
    pc,              \* the statement main executes next
    i,               \* the loop counter of line 10 (0 while out of scope)
    result,          \* the local of line 15 (0 until assigned)
    stdout,          \* the texts written so far, one per printf call
    calls,           \* the argument pairs calculate was called with
    exit_status      \* <<>> while running, <<code>> once main has returned

vars == <<argc, argv, version_string, pc, i, result, stdout, calls, exit_status>>

----------------------------------------------------------------------------
\* printf's conversions.

Digits == <<"0", "1", "2", "3", "4", "5", "6", "7", "8", "9">>

RECURSIVE DecDigits(_)
DecDigits(n) ==
    IF n < 10 THEN << Digits[n + 1] >>
    ELSE DecDigits(n \div 10) \o << Digits[(n % 10) + 1] >>

\* "%d"
FmtD(n) == IF n < 0 THEN <<"-">> \o DecDigits(-n) ELSE DecDigits(n)

\* The collaborators declared in utils.h.
get_version == version_string

calculate(a, b) == a + b

\* The text each printf call writes.
BannerText == <<"zbuild Example Project", NL>>

VersionText(v) == <<"Version: ">> \o v \o <<NL>>

HeaderText == <<"Arguments:", NL>>

ArgText(k, s) == <<"  [">> \o FmtD(k) \o <<"]: ">> \o s \o <<NL>>

SumText(r) == <<"10 + 20 = ">> \o FmtD(r) \o <<NL>>

\* What the file descriptor carries: the writes, concatenated.
RECURSIVE Concat(_)
Concat(ws) == IF ws = <<>> THEN <<>> ELSE Head(ws) \o Concat(Tail(ws))

Stream == Concat(stdout)

\* The first position of NL in t, or Len(t) + 1.
FirstNL(t) ==
    IF \E k \in 1..Len(t) : t[k] = NL
    THEN CHOOSE k \in 1..Len(t) : t[k] = NL /\ \A j \in 1..(k - 1) : t[j] # NL
    ELSE Len(t) + 1

\* The lines of a text, without their newlines.
RECURSIVE Lines(_)
Lines(t) ==
    IF t = <<>> THEN <<>>
    ELSE LET k == FirstNL(t)
         IN  << SubSeq(t, 1, k - 1) >> \o Lines(SubSeq(t, k + 1, Len(t)))

----------------------------------------------------------------------------
\* main, statement by statement.

Init ==
    /\ argc \in 1..(MaxArgs + 1)
    /\ argv \in [0..(argc - 1) -> ParamTexts \cup {ProgName}]
    /\ argv[0] = ProgName
    /\ \A k \in 1..(argc - 1) : argv[k] \in ParamTexts
    /\ version_string \in Versions
    /\ pc = "printf_banner"
    /\ i = 0
    /\ result = 0
    /\ stdout = <<>>
    /\ calls = <<>>
    /\ exit_status = <<>>

\* line 5
printf_banner ==
    /\ pc = "printf_banner"
    /\ stdout' = Append(stdout, BannerText)
    /\ pc' = "printf_version"
    /\ UNCHANGED <<argc, argv, version_string, i, result, calls, exit_status>>

\* Mutant: line 5 pasted again in place of line 6.
printf_version_banner_again ==
    /\ pc = "printf_version"
    /\ stdout' = Append(stdout, BannerText)
    /\ pc' = "if_argc"
    /\ UNCHANGED <<argc, argv, version_string, i, result, calls, exit_status>>

\* line 6
printf_version ==
    /\ pc = "printf_version"
    /\ stdout' = Append(stdout, VersionText(get_version))
    /\ pc' = "if_argc"
    /\ UNCHANGED <<argc, argv, version_string, i, result, calls, exit_status>>

\* Mutant: the presence check counts the program name.
HasArgs_CountsProgName == argc > 0

\* line 8: the condition of the if
HasArgs == argc > 1

if_argc ==
    /\ pc = "if_argc"
    /\ pc' = IF HasArgs THEN "printf_header" ELSE "call_calculate"
    /\ UNCHANGED <<argc, argv, version_string, i, result, stdout, calls, exit_status>>

\* line 9
printf_header ==
    /\ pc = "printf_header"
    /\ stdout' = Append(stdout, HeaderText)
    /\ pc' = "for_init"
    /\ UNCHANGED <<argc, argv, version_string, i, result, calls, exit_status>>

\* Mutant: the loop starts at the program name.
for_init_from_zero ==
    /\ pc = "for_init"
    /\ i' = 0
    /\ pc' = "for_test"
    /\ UNCHANGED <<argc, argv, version_string, result, stdout, calls, exit_status>>

\* line 10: int i = 1
for_init ==
    /\ pc = "for_init"
    /\ i' = 1
    /\ pc' = "for_test"
    /\ UNCHANGED <<argc, argv, version_string, result, stdout, calls, exit_status>>

\* Mutant: the loop stops one parameter early.
LoopCond_DropsLast == i < argc - 1

\* line 10: i < argc
LoopCond == i < argc

for_test ==
    /\ pc = "for_test"
    /\ pc' = IF LoopCond THEN "printf_arg" ELSE "call_calculate"
    /\ UNCHANGED <<argc, argv, version_string, i, result, stdout, calls, exit_status>>

\* Mutant: the header is written inside the loop.
printf_arg_with_header ==
    /\ pc = "printf_arg"
    /\ stdout' = stdout \o << HeaderText, ArgText(i, argv[i]) >>
    /\ pc' = "for_incr"
    /\ UNCHANGED <<argc, argv, version_string, i, result, calls, exit_status>>

\* Mutant: a parameter that starts with "-" is taken for an option and not echoed.
printf_arg_skips_options ==
    /\ pc = "printf_arg"
    /\ stdout' = IF Len(argv[i]) > 0 /\ argv[i][1] = "-"
                 THEN stdout
                 ELSE Append(stdout, ArgText(i, argv[i]))
    /\ pc' = "for_incr"
    /\ UNCHANGED <<argc, argv, version_string, i, result, calls, exit_status>>

\* Mutant: the parameter is tokenised in place (strtok at the first space)
\* before it is echoed.
printf_arg_strtok ==
    /\ pc = "printf_arg"
    /\ LET s == argv[i]
           cut == IF \E k \in 1..Len(s) : s[k] = " "
                  THEN CHOOSE k \in 1..Len(s) : s[k] = " " /\ \A j \in 1..(k - 1) : s[j] # " "
                  ELSE Len(s) + 1
           tok == SubSeq(s, 1, cut - 1)
       IN  /\ argv' = [argv EXCEPT ![i] = tok]
           /\ stdout' = Append(stdout, ArgText(i, tok))
    /\ pc' = "for_incr"
    /\ UNCHANGED <<argc, version_string, i, result, calls, exit_status>>

\* line 11
printf_arg ==
    /\ pc = "printf_arg"
    /\ stdout' = Append(stdout, ArgText(i, argv[i]))
    /\ pc' = "for_incr"
    /\ UNCHANGED <<argc, argv, version_string, i, result, calls, exit_status>>

\* line 10: i++
for_incr ==
    /\ pc = "for_incr"
    /\ i' = i + 1
    /\ pc' = "for_test"
    /\ UNCHANGED <<argc, argv, version_string, result, stdout, calls, exit_status>>

\* Mutant: the second literal of the call is mistyped.
call_calculate_wrong_literal ==
    /\ pc = "call_calculate"
    /\ calls' = Append(calls, <<10, 10>>)
    /\ result' = calculate(10, 10)
    /\ pc' = "printf_sum"
    /\ UNCHANGED <<argc, argv, version_string, i, stdout, exit_status>>

\* line 15
call_calculate ==
    /\ pc = "call_calculate"
    /\ calls' = Append(calls, <<10, 20>>)
    /\ result' = calculate(10, 20)
    /\ pc' = "printf_sum"
    /\ UNCHANGED <<argc, argv, version_string, i, stdout, exit_status>>

\* line 16
printf_sum ==
    /\ pc = "printf_sum"
    /\ stdout' = Append(stdout, SumText(result))
    /\ pc' = "return"
    /\ UNCHANGED <<argc, argv, version_string, i, result, calls, exit_status>>

\* Mutant: main reports failure.
return_main_nonzero ==
    /\ pc = "return"
    /\ exit_status' = << 1 >>
    /\ pc' = "done"
    /\ UNCHANGED <<argc, argv, version_string, i, result, stdout, calls>>

\* line 18: return 0
return_main ==
    /\ pc = "return"
    /\ exit_status' = << 0 >>
    /\ pc' = "done"
    /\ UNCHANGED <<argc, argv, version_string, i, result, stdout, calls>>

Next ==
    \/ printf_banner
    \/ printf_version
    \/ if_argc
    \/ printf_header
    \/ for_init
    \/ for_test
    \/ printf_arg
    \/ for_incr
    \/ call_calculate
    \/ printf_sum
    \/ return_main

Spec == Init /\ [][Next]_vars

\* main is one thread of straight-line code: a statement that can run, runs.
FairSpec == Spec /\ WF_vars(Next)

----------------------------------------------------------------------------
\* Vocabulary of the properties.

\* The number of invocation parameters.
N == argc - 1

Done == pc = "done"

\* The decimal numeral of k, for 0 <= k <= 99.
Numeral(k) ==
    LET d == <<"0", "1", "2", "3", "4", "5", "6", "7", "8", "9">>
    IN  IF k < 10 THEN << d[k + 1] >> ELSE << d[(k \div 10) + 1], d[(k % 10) + 1] >>

BannerLine == <<"zbuild Example Project">>

VersionLine == <<"Version: ">> \o version_string

HeaderLine == <<"Arguments:">>

\* "  [k]: " followed by the text of the k-th parameter.
EchoLine(k) == <<"  [">> \o Numeral(k) \o <<"]: ">> \o argv[k]

SumLine == <<"10 + 20 = ">> \o Numeral(result)

Sum30Line == <<"10 + 20 = ", "3", "0">>

\* A line (or a write) of the argument section's per-parameter shape.
IsEcho(t) == Len(t) > 0 /\ t[1] = "  ["

IsSum(t) == Len(t) > 0 /\ t[1] = "10 + 20 = "

Newlines(t) == Cardinality({ k \in 1..Len(t) : t[k] = NL })

NewlineFree == \A k \in 1..N : Newlines(argv[k]) = 0

RECURSIVE ParamNewlines(_)
ParamNewlines(k) == IF k = 0 THEN 0 ELSE Newlines(argv[k]) + ParamNewlines(k - 1)

\* The writes of the header and of the per-parameter texts.
HeaderWrites == { k \in 1..Len(stdout) : stdout[k] = HeaderLine \o <<NL>> }

EchoWrites == { k \in 1..Len(stdout) : IsEcho(stdout[k]) }

IsPrefix(s, t) == Len(s) <= Len(t) /\ SubSeq(t, 1, Len(s)) = s

----------------------------------------------------------------------------
\* C1 as stated: with N >= 1 parameters the output holds the line
\* "Arguments:" followed immediately by exactly N lines, the k-th being
\* "  [k]: " followed by the exact text of argv[k].
C1_ExactlyNLines ==
    (Done /\ N >= 1) =>
        LET L == Lines(Stream)
        IN  \E h \in 1..Len(L) :
                /\ L[h] = HeaderLine
                /\ Len(L) = h + N + 1
                /\ \A k \in 1..N : L[h + k] = EchoLine(k)

\* C1, amended: with N >= 1 parameters the output holds the text
\* "Arguments:\n" followed immediately by exactly N writes, the k-th being
\* "  [k]: ", the exact text of argv[k] and a newline, in the order given,
\* none skipped and none repeated; when no parameter holds a newline these
\* are exactly N lines, the k-th being "  [k]: " followed by argv[k].
C1_ExactlyNWrites ==
    (Done /\ N >= 1) =>
        /\ \E h \in 1..Len(stdout) :
                /\ stdout[h] = HeaderLine \o <<NL>>
                /\ Len(stdout) = h + N + 1
                /\ \A k \in 1..N : stdout[h + k] = EchoLine(k) \o <<NL>>
        /\ NewlineFree =>
                LET L == Lines(Stream)
                IN  \E h \in 1..Len(L) :
                        /\ L[h] = HeaderLine
                        /\ Len(L) = h + N + 1
                        /\ \A k \in 1..N : L[h + k] = EchoLine(k)

\* Scenario C of the specification: foo, then "bar baz".
C1_Witness ==
    /\ Done
    /\ argc = 3
    /\ argv[1] = <<"f", "o", "o">>
    /\ argv[2] = <<"b", "a", "r", " ", "b", "a", "z">>
    /\ Len(stdout) = 6

\* C2: with zero parameters the output is exactly the banner line, the
\* version line and the sum line; neither "Arguments:" nor a "  [i]: ..."
\* line ever appears.
C2_ZeroParameters ==
    N = 0 =>
        LET L == Lines(Stream)
        IN  /\ \A k \in 1..Len(L) : L[k] # HeaderLine /\ ~IsEcho(L[k])
            /\ Done => L = << BannerLine, VersionLine, SumLine >>

C2_Witness == Done /\ argc = 1 /\ Len(Lines(Stream)) = 3

\* C3: the banner line is the first line written and the version line the
\* second; every line of the argument section comes after the version line
\* and before the sum line; the sum line is the last line written before
\* main returns.
C3_WriteOrder ==
    LET L == Lines(Stream)
        n == Len(L)
    IN  /\ n >= 1 => L[1] = BannerLine
        /\ n >= 2 => L[2] = VersionLine
        /\ \A k \in 1..n :
               (L[k] = HeaderLine \/ IsEcho(L[k])) =>
                   /\ k >= 3
                   /\ \A j \in 1..n : IsSum(L[j]) => k < j
        /\ \A k \in 1..n : IsSum(L[k]) => k = n /\ k >= 3 /\ pc \in {"return", "done"}
        /\ pc \in {"return", "done"} => n >= 3 /\ L[n] = SumLine

C3_Witness ==
    /\ Done
    /\ argc = 3
    /\ Len(Lines(Stream)) >= 6
    /\ IsSum(Lines(Stream)[Len(Lines(Stream))])

\* C4: the header is written if and only if argc > 1, then exactly once and
\* before the first per-parameter write.
C4_HeaderIffParameters ==
    /\ Cardinality(HeaderWrites) <= 1
    /\ HeaderWrites # {} => argc > 1
    /\ \A k \in EchoWrites : \E h \in HeaderWrites : h < k
    /\ Done => (Cardinality(HeaderWrites) = 1 <=> argc > 1)

C4_Witness == Done /\ argc > 1 /\ Cardinality(HeaderWrites) = 1 /\ EchoWrites # {}

\* C5: calculate is called exactly once, with (10, 20), and the sum line
\* written is exactly "10 + 20 = 30" whatever the parameters are.
C5_SumLine ==
    /\ Len(calls) <= 1
    /\ pc \in {"printf_sum", "return", "done"} => calls = << <<10, 20>> >>
    /\ pc \in {"return", "done"} =>
           LET L == Lines(Stream)
           IN  /\ L[Len(L)] = Sum30Line
               /\ Cardinality({ k \in 1..Len(L) : IsSum(L[k]) }) = 1

C5_Witness ==
    /\ Done
    /\ argc = 3
    /\ calls = << <<10, 20>> >>
    /\ result = 30
    /\ stdout[Len(stdout)] = Sum30Line \o <<NL>>

\* C6: main always runs to completion and returns 0: the loop ends after
\* exactly argc - 1 iterations, no path returns another code and no path
\* stops before the sum line is written.
C6_Terminates ==
    /\ [](exit_status # <<>> => (exit_status = <<0>> /\ Done))
    /\ <>( /\ Done
           /\ exit_status = <<0>>
           /\ Cardinality(EchoWrites) = argc - 1
           /\ (argc > 1 => i = argc)
           /\ IsSum(stdout[Len(stdout)]) )

C6_Witness ==
    /\ Done
    /\ exit_status = <<0>>
    /\ argc = 3
    /\ i = 3
    /\ Cardinality(EchoWrites) = 2

\* C7 as stated: every parameter value is echoed verbatim on its own
\* "  [i]: <value>" line, and its content changes neither the other lines,
\* nor the sum line, nor the exit code.
C7_OwnLine ==
    Done =>
        LET L == Lines(Stream)
        IN  /\ \A k \in 1..N : \E j \in 1..Len(L) : L[j] = EchoLine(k)
            /\ L[1] = BannerLine
            /\ L[2] = VersionLine
            /\ L[Len(L)] = Sum30Line
            /\ exit_status = <<0>>

\* C7, amended: every parameter value is echoed verbatim in its own write
\* "  [i]: <value>\n", which is a line of its own when the value holds no
\* newline; the number of writes, every other write and the exit code are
\* the same for all values.
C7_OwnWrite ==
    Done =>
        /\ Len(stdout) = (IF N = 0 THEN 3 ELSE N + 4)
        /\ stdout[1] = BannerLine \o <<NL>>
        /\ stdout[2] = VersionLine \o <<NL>>
        /\ N >= 1 => stdout[3] = HeaderLine \o <<NL>>
        /\ stdout[Len(stdout)] = Sum30Line \o <<NL>>
        /\ exit_status = <<0>>
        /\ \A k \in 1..N :
               /\ stdout[3 + k] = <<"  [">> \o Numeral(k) \o <<"]: ">> \o argv[k] \o <<NL>>
               /\ Newlines(argv[k]) = 0 =>
                      \E j \in 1..Len(Lines(Stream)) : Lines(Stream)[j] = EchoLine(k)

\* Values that look like options, and a value with a space.
C7_Witness ==
    /\ Done
    /\ argc = 3
    /\ argv[1] \in { <<"-", "-", "h", "e", "l", "p">>, <<"-", "v">> }
    /\ argv[2] = <<"b", "a", "r", " ", "b", "a", "z">>
    /\ stdout[5] = <<"  [", "2", "]: ", "b", "a", "r", " ", "b", "a", "z", NL>>

\* C9: argc and argv are only read, and standard output is only appended to.
C9_Frame ==
    [][ /\ argc' = argc
        /\ argv' = argv
        /\ IsPrefix(stdout, stdout')
        /\ Len(stdout') <= Len(stdout) + 1
        /\ IsPrefix(Concat(stdout), Concat(stdout')) ]_vars

C9_Witness ==
    /\ Done
    /\ argc = 3
    /\ argv[0] = ProgName
    /\ argv[2] = <<"b", "a", "r", " ", "b", "a", "z">>
    /\ Len(Stream) > 0

\* C10 as stated: argv[0] is never echoed, the loop index stays in
\* 1..argc-1 when argv is read, the number of lines written is 3 when N = 0
\* and N + 4 when N >= 1, and the indices printed are 1, 2, ..., N.
C10_LineCount ==
    /\ pc = "printf_arg" => i \in 1..(argc - 1)
    /\ Done => Len(Lines(Stream)) = (IF N = 0 THEN 3 ELSE N + 4)
    /\ \A k \in EchoWrites :
           /\ k >= 4
           /\ IsPrefix(<<"  [">> \o Numeral(k - 3) \o <<"]: ">>, stdout[k])

\* C10, amended: argv[0] is never echoed, the loop index stays in
\* 1..argc-1 when argv is read, the number of writes is 3 when N = 0 and
\* N + 4 when N >= 1, the number of lines is that number plus the number of
\* newline characters in the parameters, and the indices printed are
\* 1, 2, ..., N.
C10_WriteCount ==
    /\ pc = "printf_arg" => i \in 1..(argc - 1)
    /\ Done =>
           /\ Len(stdout) = (IF N = 0 THEN 3 ELSE N + 4)
           /\ Len(Lines(Stream)) = Len(stdout) + ParamNewlines(N)
           /\ EchoWrites = { 3 + k : k \in 1..N }
    /\ \A k \in EchoWrites :
           /\ k >= 4
           /\ IsPrefix(<<"  [">> \o Numeral(k - 3) \o <<"]: ">>, stdout[k])

C10_Witness ==
    /\ Done
    /\ argc = 3
    /\ Len(stdout) = 6
    /\ ParamNewlines(N) = 0
    /\ Len(Lines(Stream)) = 6

====
